---- MODULE Spec2Model ----
(***************************************************************************)
(* Model of the bitcoin-testnet-box check script (src/unnamed/part_000)    *)
(* and of the lifecycle handlers of the front-end                          *)
(* (src/frontend/src/App.jsx).                                             *)
(*                                                                         *)
(* The script is a sequential bash program run under `set -e`.  It drives  *)
(* two bitcoind processes through make targets and bitcoin-cli calls.  The *)
(* node processes are the environment: they open their RPC port and exit   *)
(* on their own schedule.                                                  *)
(***************************************************************************)
EXTENDS Integers, FiniteSets, Sequences, TLC

\* ---------------------------------------------------------------- bounds
MaxRuns == 2        \* invocations of the script that are modelled
MaxPolls == 2       \* failed polls counted in one wait loop (saturating)
MaxClicks == 2      \* button clicks in the front-end
MaxFetches == 2     \* /info requests the front-end issues
MaxAmountLen == 1   \* characters typed into the amount field

\* ------------------------------------------------------ program constants
CoinbaseMaturity == 100    \* blocks on top of a block before its reward can be spent

MaturityBlocksShort == CoinbaseMaturity

MaturityBlocks == 101

ConfirmBlocksTwo == 1 + 1

ConfirmBlocks == 1

LogLimit == 50
SendAmount == 1000000      \* amount=10 (BTC), in units of 1000 satoshi
Reward == 5000000          \* block subsidy of a new chain, 50 BTC
Fee == 3                   \* fee of the transfer at fee_rate=20, about 2820 satoshi

Nodes == {1, 2}
Runs == 1..MaxRuns

VARIABLES
    proc,        \* proc[n]: "none" | "starting" | "up" | "stopping"
    wallet,      \* wallet[n]: the node's wallet (wallet1 / wallet2) exists on disk
    height,      \* number of blocks of the chain in the data directories
    answered,    \* answered[n]: node n answered a getnetworkinfo probe since its last start
    pc,          \* pc[r]: the line of the script run r is about to execute
    polls,       \* polls[r]: failed polls of the wait loop run r is in
    cause,       \* cause[r]: why run r aborted
    failedAt,    \* failedAt[r]: the step at which run r aborted
    masked,      \* masked[r]: steps of run r that failed without aborting the run
    executed,    \* executed[r]: steps of run r that ran to their end without aborting it
    probeSent,   \* probeSent[r]: nodes run r has sent a getnetworkinfo probe to
    paid,        \* what Node 1's wallet has paid out: amounts and fees
    recv2,       \* confirmed amount Node 2's wallet has received
    pendAmt,     \* unconfirmed amount on its way to Node 2's wallet
    pendFee,     \* fees of the unconfirmed transfers
    blockFees,   \* fees collected by mined blocks: [block, fee]
    gen2,        \* number of wallets created so far on Node 2
    addr2,       \* addr2[r]: ADDR2 of run r, as the wallet of Node 2 it belongs to (0: unset)
    txFee,       \* txFee[r]: fee of the transfer of run r
    balBefore,   \* balBefore[r][n]: balance of node n just before the transfer of run r
    balRead,     \* balRead[r][n]: balance of node n printed by run r (-1: none)
    issued,      \* RPC calls put on the wire, with the nodes that had answered a probe
    unsafeClean, \* make clean was invoked while a node process existed
    logs,        \* front-end: the log list, newest first
    startReqs,   \* front-end: POST /start requests in flight
    stopReqs,    \* front-end: POST /stop requests in flight
    infoTimers,  \* front-end: pending setTimeout(fetchInfo, 2000) timers
    clicks,      \* front-end: user events made so far
    info,        \* front-end: the displayed info, Null or a response body
    amount,      \* front-end: value of the amount field, as characters
    targetAddress, \* front-end: value of the target address field
    mounted,     \* front-end: the effect of the first render has run
    infoReqs,    \* front-end: ids of the GET /info requests in flight
    nextId,      \* front-end: id of the next GET /info request
    genReqs,     \* front-end: POST /generate requests in flight
    addrReqs,    \* front-end: addrReqs[n]: GET /wallet/address/n requests in flight
    sendReqs,    \* front-end: POST /send requests in flight
    sentBodies,  \* bodies of the POST /send requests issued
    lastOk,      \* body of the last /info response that was received and parsed
    shown,       \* id of the /info request whose response is displayed (0: none)
    maxShown     \* highest id of an /info request whose response was displayed

envVars == <<proc, wallet, height, answered>>
runVars == <<pc, polls, cause, failedAt, masked, executed>>
ghostVars == <<issued, unsafeClean>>
chainVars == <<paid, recv2, pendAmt, pendFee, blockFees>>
coinVars == <<chainVars, gen2, addr2, txFee, balBefore, balRead>>
uiVars == <<logs, startReqs, stopReqs, infoTimers, clicks, info, amount,
           targetAddress, mounted, infoReqs, nextId, genReqs, addrReqs, sendReqs,
           sentBodies, lastOk, shown, maxShown>>
vars == <<proc, wallet, height, answered, pc, polls, cause, failedAt, masked,
          executed, probeSent, paid, recv2, pendAmt, pendFee, blockFees, gen2,
          addr2, txFee, balBefore, balRead, issued, unsafeClean, logs, startReqs, stopReqs, infoTimers, clicks,
          info, amount, targetAddress, mounted, infoReqs, nextId, genReqs, addrReqs,
          sendReqs, sentBodies, lastOk, shown, maxShown>>

\* ------------------------------------------------------ the script's lines
Labels == {"off", "setup", "stop0", "waitexit", "clean", "start", "wait1", "wait2",
           "sleep", "wallet1", "wallet2", "gen101", "getinfo", "newaddr", "send",
           "gen1", "bal1", "bal2", "stop1", "done", "failed"}

Ended == {"done", "failed"}
Idle == {"off", "done", "failed"}

\* The step that follows a step which did not abort the run.
StepAfterNoWait2(l) ==
    CASE l = "setup" -> "stop0"
      [] l = "stop0" -> "waitexit"
      [] l = "waitexit" -> "clean"
      [] l = "clean" -> "start"
      [] l = "start" -> "wait1"
      [] l = "wait1" -> "sleep"
      [] l = "wait2" -> "sleep"
      [] l = "sleep" -> "wallet1"
      [] l = "wallet1" -> "wallet2"
      [] l = "wallet2" -> "gen101"
      [] l = "gen101" -> "getinfo"
      [] l = "getinfo" -> "newaddr"
      [] l = "newaddr" -> "send"
      [] l = "send" -> "gen1"
      [] l = "gen1" -> "bal1"
      [] l = "bal1" -> "bal2"
      [] l = "bal2" -> "stop1"
      [] l = "stop1" -> "done"
      [] OTHER -> l

StepAfterNoClean(l) ==
    CASE l = "setup" -> "stop0"
      [] l = "stop0" -> "waitexit"
      [] l = "waitexit" -> "start"
      [] l = "clean" -> "start"
      [] l = "start" -> "wait1"
      [] l = "wait1" -> "wait2"
      [] l = "wait2" -> "sleep"
      [] l = "sleep" -> "wallet1"
      [] l = "wallet1" -> "wallet2"
      [] l = "wallet2" -> "gen101"
      [] l = "gen101" -> "getinfo"
      [] l = "getinfo" -> "newaddr"
      [] l = "newaddr" -> "send"
      [] l = "send" -> "gen1"
      [] l = "gen1" -> "bal1"
      [] l = "bal1" -> "bal2"
      [] l = "bal2" -> "stop1"
      [] l = "stop1" -> "done"
      [] OTHER -> l

StepAfterMineFirst(l) ==
    CASE l = "setup" -> "stop0"
      [] l = "stop0" -> "waitexit"
      [] l = "waitexit" -> "clean"
      [] l = "clean" -> "start"
      [] l = "start" -> "wait1"
      [] l = "wait1" -> "wait2"
      [] l = "wait2" -> "sleep"
      [] l = "sleep" -> "gen101"
      [] l = "gen101" -> "wallet1"
      [] l = "wallet1" -> "wallet2"
      [] l = "wallet2" -> "getinfo"
      [] l = "getinfo" -> "newaddr"
      [] l = "newaddr" -> "send"
      [] l = "send" -> "gen1"
      [] l = "gen1" -> "bal1"
      [] l = "bal1" -> "bal2"
      [] l = "bal2" -> "stop1"
      [] l = "stop1" -> "done"
      [] OTHER -> l

StepAfter(l) ==
    CASE l = "setup" -> "stop0"
      [] l = "stop0" -> "waitexit"
      [] l = "waitexit" -> "clean"
      [] l = "clean" -> "start"
      [] l = "start" -> "wait1"
      [] l = "wait1" -> "wait2"
      [] l = "wait2" -> "sleep"
      [] l = "sleep" -> "wallet1"
      [] l = "wallet1" -> "wallet2"
      [] l = "wallet2" -> "gen101"
      [] l = "gen101" -> "getinfo"
      [] l = "getinfo" -> "newaddr"
      [] l = "newaddr" -> "send"
      [] l = "send" -> "gen1"
      [] l = "gen1" -> "bal1"
      [] l = "bal1" -> "bal2"
      [] l = "bal2" -> "stop1"
      [] l = "stop1" -> "done"
      [] OTHER -> l

\* Exit status of a run that has ended: 0, or non-zero (1) after an abort.
ExitStatus(r) == IF pc[r] = "done" THEN 0 ELSE 1

\* --------------------------------------------------------- the environment
\* `pgrep bitcoind`: some node process exists.
ProcessExists == \E n \in Nodes : proc[n] # "none"

PgrepNever == FALSE

Pgrep == ProcessExists

\* Outcomes of one bitcoin-cli call to node n.  A node whose RPC server is
\* not answering refuses the connection; a node that answers may reject the
\* call.
RpcOutcomes(n, method) ==
    IF proc[n] # "up" THEN {"unreachable"}
    ELSE IF method = "createwallet" /\ wallet[n] THEN {"exists", "error"}
    ELSE IF method \in {"generate", "getnewaddress", "sendtoaddress", "getbalance"}
            /\ ~wallet[n] THEN {"error"}
    ELSE {"ok", "error"}

Probed == {n \in Nodes : answered[n]}

\* Number of blocks of a chain of height h whose reward can be spent.
Mature(h) == IF h > CoinbaseMaturity THEN h - CoinbaseMaturity ELSE 0

RECURSIVE SumFees(_)
SumFees(S) ==
    IF S = {} THEN 0
    ELSE LET b == CHOOSE x \in S : TRUE IN b.fee + SumFees(S \ {b})

\* Fees of the blocks whose coinbase can be spent; every block is mined by
\* Node 1.
MatureFees == SumFees({b \in blockFees : b.block + CoinbaseMaturity <= height})

\* What getbalance answers on node n.
Balance(n) ==
    IF ~wallet[n] THEN 0
    ELSE IF n = 1 THEN Mature(height) * Reward + MatureFees - paid
    ELSE recv2

Call(method, n) == [method |-> method, node |-> n, probed |-> Probed]

\* The node's RPC server starts to answer.
RpcOpen(n) ==
    /\ proc[n] = "starting"
    /\ proc' = [proc EXCEPT ![n] = "up"]
    /\ UNCHANGED <<wallet, height, answered, runVars, ghostVars, uiVars, probeSent, coinVars>>

\* A node that was asked to stop exits.
NodeExit(n) ==
    /\ proc[n] = "stopping"
    /\ proc' = [proc EXCEPT ![n] = "none"]
    /\ UNCHANGED <<wallet, height, answered, runVars, ghostVars, uiVars, probeSent, coinVars>>

\* ------------------------------------------------------------ script steps
Advance(r) ==
    /\ pc' = [pc EXCEPT ![r] = StepAfter(pc[r])]
    /\ polls' = [polls EXCEPT ![r] = 0]
    /\ executed' = [executed EXCEPT ![r] = @ \cup {pc[r]}]
    /\ UNCHANGED <<cause, failedAt>>

\* set -e: a failing simple command ends the script with a non-zero status.
Abort(r, why) ==
    /\ pc' = [pc EXCEPT ![r] = "failed"]
    /\ cause' = [cause EXCEPT ![r] = why]
    /\ failedAt' = [failedAt EXCEPT ![r] = pc[r]]
    /\ polls' = [polls EXCEPT ![r] = 0]
    /\ UNCHANGED executed

\* Lines 11-34: directories, download of the binaries, version banner.
Setup(r) ==
    /\ pc[r] = "setup"
    /\ \E ok \in BOOLEAN :
          IF ok THEN Advance(r) ELSE Abort(r, "error")
    /\ UNCHANGED <<envVars, masked, ghostVars, uiVars, probeSent, coinVars>>


\* `make stop`: asks both nodes to shut down through their RPC server.  A
\* node that takes the request exits later, on its own.
StopRequested(o1, o2) ==
    [n \in Nodes |->
        IF (IF n = 1 THEN o1 ELSE o2) = "ok" THEN "stopping" ELSE proc[n]]

MakeStopResult(o1, o2) ==
    IF o1 = "ok" /\ o2 = "ok" THEN {"ok"}
    ELSE IF ~ProcessExists THEN {"ok", "unreachable"}
    ELSE {IF o1 # "ok" THEN o1 ELSE o2}

MakeStopCalls == {Call("stop", n) : n \in Nodes}

\* Line 37: make stop >/dev/null 2>&1 || true
InitialStop(r) ==
    /\ pc[r] = "stop0"
    /\ \E o1 \in RpcOutcomes(1, "stop"), o2 \in RpcOutcomes(2, "stop") :
          /\ proc' = StopRequested(o1, o2)
          /\ \E res \in MakeStopResult(o1, o2) :
                masked' = [masked EXCEPT ![r] =
                              IF res = "ok" THEN @ ELSE @ \cup {"stop0"}]
    /\ issued' = issued \cup MakeStopCalls
    /\ Advance(r)
    /\ UNCHANGED <<wallet, height, answered, unsafeClean, uiVars, probeSent, coinVars>>

\* Lines 41-43: while pgrep bitcoind > /dev/null; do sleep 1; done
WaitForExit(r) ==
    /\ pc[r] = "waitexit"
    /\ IF Pgrep
       THEN /\ polls' = [polls EXCEPT ![r] = IF @ < MaxPolls THEN @ + 1 ELSE @]
            /\ UNCHANGED <<pc, cause, failedAt, executed>>
       ELSE Advance(r)
    /\ UNCHANGED <<envVars, masked, ghostVars, uiVars, probeSent, coinVars>>

\* `make clean`: removes the run state of both data directories; refuses to
\* do so while a node process exists.
MakeCleanOutcomes == IF ProcessExists THEN {"unsafe"} ELSE {"ok", "error"}

\* Line 45: make clean
Clean(r) ==
    /\ pc[r] = "clean"
    /\ unsafeClean' = (unsafeClean \/ ProcessExists)
    /\ \E o \in MakeCleanOutcomes :
          IF o = "ok"
          THEN /\ wallet' = [n \in Nodes |-> FALSE]
               /\ height' = 0
               /\ paid' = 0
               /\ recv2' = 0
               /\ pendAmt' = 0
               /\ pendFee' = 0
               /\ blockFees' = {}
               /\ Advance(r)
          ELSE /\ Abort(r, o)
               /\ UNCHANGED <<wallet, height, chainVars>>
    /\ UNCHANGED <<proc, answered, masked, issued, uiVars, probeSent, gen2, addr2,
                   txFee, balBefore, balRead>>

\* `make start`: launches both node processes as daemons.
MakeStartOutcomes == IF ProcessExists THEN {"alreadyrunning"} ELSE {"ok", "error"}

\* Line 48: make start
Start(r) ==
    /\ pc[r] = "start"
    /\ \E o \in MakeStartOutcomes :
          IF o = "ok"
          THEN /\ proc' = [n \in Nodes |-> "starting"]
               /\ answered' = [n \in Nodes |-> FALSE]
               /\ Advance(r)
          ELSE /\ Abort(r, o)
               /\ UNCHANGED <<proc, answered>>
    /\ UNCHANGED <<wallet, height, masked, ghostVars, uiVars, probeSent, coinVars>>

\* Lines 52-57: until bitcoin-cli -datadir=n getnetworkinfo; do sleep 1; done
WaitReady(r, l, n) ==
    /\ pc[r] = l
    /\ probeSent' = [probeSent EXCEPT ![r] = @ \cup {n}]
    /\ IF proc[n] = "up"
       THEN /\ answered' = [answered EXCEPT ![n] = TRUE]
            /\ Advance(r)
       ELSE /\ polls' = [polls EXCEPT ![r] = IF @ < MaxPolls THEN @ + 1 ELSE @]
            /\ UNCHANGED <<answered, pc, cause, failedAt, executed>>
    /\ UNCHANGED <<proc, wallet, height, masked, ghostVars, uiVars, coinVars>>

\* Line 58: sleep 2
Sleep(r) ==
    /\ pc[r] = "sleep"
    /\ Advance(r)
    /\ UNCHANGED <<envVars, masked, ghostVars, uiVars, probeSent, coinVars>>

\* Lines 61-62: bitcoin-cli -datadir=n createwallet walletn
CreateWallet(r, l, n) ==
    /\ pc[r] = l
    /\ issued' = issued \cup {Call("createwallet", n)}
    /\ \E o \in RpcOutcomes(n, "createwallet") :
          IF o = "ok"
          THEN /\ wallet' = [wallet EXCEPT ![n] = TRUE]
               /\ gen2' = IF n = 2 THEN gen2 + 1 ELSE gen2
               /\ Advance(r)
          ELSE /\ Abort(r, o)
               /\ UNCHANGED <<wallet, gen2>>
    /\ UNCHANGED <<proc, height, answered, masked, unsafeClean, uiVars, probeSent,
                   chainVars, addr2, txFee, balBefore, balRead>>

\* Lines 65 and 80: make generate BLOCKS=k, mining on Node 1
Generate(r, l, k) ==
    /\ pc[r] = l
    /\ issued' = issued \cup {Call("generate", 1)}
    /\ \E o \in RpcOutcomes(1, "generate") :
          IF o = "ok"
          THEN /\ height' = height + k
               /\ recv2' = recv2 + pendAmt
               /\ blockFees' = IF pendFee > 0
                                THEN blockFees \cup {[block |-> height + 1, fee |-> pendFee]}
                                ELSE blockFees
               /\ pendAmt' = 0
               /\ pendFee' = 0
               /\ Advance(r)
          ELSE /\ Abort(r, o)
               /\ UNCHANGED <<height, recv2, blockFees, pendAmt, pendFee>>
    /\ UNCHANGED <<proc, wallet, answered, masked, unsafeClean, uiVars, probeSent,
                   paid, gen2, addr2, txFee, balBefore, balRead>>

\* Line 68: make getinfo, the info snapshot of both nodes
GetInfo(r) ==
    /\ pc[r] = "getinfo"
    /\ issued' = issued \cup {Call("getinfo", n) : n \in Nodes}
    /\ \E o1 \in RpcOutcomes(1, "getinfo"), o2 \in RpcOutcomes(2, "getinfo") :
          IF o1 = "ok" /\ o2 = "ok"
          THEN Advance(r)
          ELSE Abort(r, IF o1 # "ok" THEN o1 ELSE o2)
    /\ UNCHANGED <<envVars, masked, unsafeClean, uiVars, probeSent, coinVars>>

\* Line 71: ADDR2=$(bitcoin-cli -datadir=2 getnewaddress); the assignment
\* has the status of the command substitution, so set -e applies.
GetNewAddress(r) ==
    /\ pc[r] = "newaddr"
    /\ issued' = issued \cup {Call("getnewaddress", 2)}
    /\ \E o \in RpcOutcomes(2, "getnewaddress") :
          IF o = "ok"
          THEN /\ addr2' = [addr2 EXCEPT ![r] = gen2]
               /\ Advance(r)
          ELSE /\ Abort(r, o)
               /\ UNCHANGED addr2
    /\ UNCHANGED <<envVars, masked, unsafeClean, uiVars, probeSent, chainVars, gen2,
                   txFee, balBefore, balRead>>

\* Line 76: TXID=$(bitcoin-cli -datadir=1 -named sendtoaddress
\* address="$ADDR2" amount=10 fee_rate=20)
SendToAddress(r) ==
    /\ pc[r] = "send"
    /\ issued' = issued \cup {Call("sendtoaddress", 1)}
    /\ \E o \in RpcOutcomes(1, "sendtoaddress") :
          IF o = "ok" /\ Balance(1) >= SendAmount + Fee
          THEN /\ paid' = paid + SendAmount + Fee
               /\ pendFee' = pendFee + Fee
               /\ pendAmt' = IF wallet[2] /\ addr2[r] = gen2
                              THEN pendAmt + SendAmount ELSE pendAmt
               /\ txFee' = [txFee EXCEPT ![r] = Fee]
               /\ balBefore' = [balBefore EXCEPT ![r] = [n \in Nodes |-> Balance(n)]]
               /\ Advance(r)
          ELSE /\ Abort(r, IF o = "ok" THEN "error" ELSE o)
               /\ UNCHANGED <<paid, pendFee, pendAmt, txFee, balBefore>>
    /\ UNCHANGED <<envVars, masked, unsafeClean, uiVars, probeSent, recv2, blockFees,
                   gen2, addr2, balRead>>

\* Lines 83-84: echo "... $(bitcoin-cli -datadir=n getbalance)"; the status
\* of the line is that of echo, whatever the command substitution returned.
EchoBalance(r, l, n) ==
    /\ pc[r] = l
    /\ issued' = issued \cup {Call("getbalance", n)}
    /\ \E o \in RpcOutcomes(n, "getbalance") :
          /\ masked' = [masked EXCEPT ![r] = IF o = "ok" THEN @ ELSE @ \cup {l}]
          /\ balRead' = [balRead EXCEPT ![r][n] = IF o = "ok" THEN Balance(n) ELSE @]
    /\ Advance(r)
    /\ UNCHANGED <<envVars, unsafeClean, uiVars, probeSent, chainVars, gen2, addr2,
                   txFee, balBefore>>

\* Line 87: make stop, the last command: its status is the script's status.
FinalStop(r) ==
    /\ pc[r] = "stop1"
    /\ issued' = issued \cup MakeStopCalls
    /\ \E o1 \in RpcOutcomes(1, "stop"), o2 \in RpcOutcomes(2, "stop") :
          /\ proc' = StopRequested(o1, o2)
          /\ \E res \in MakeStopResult(o1, o2) :
                IF res = "ok" THEN Advance(r) ELSE Abort(r, res)
    /\ UNCHANGED <<wallet, height, answered, masked, unsafeClean, uiVars, probeSent, coinVars>>

Step(r) ==
    \/ Setup(r)
    \/ InitialStop(r)
    \/ WaitForExit(r)
    \/ Clean(r)
    \/ Start(r)
    \/ WaitReady(r, "wait1", 1)
    \/ WaitReady(r, "wait2", 2)
    \/ Sleep(r)
    \/ CreateWallet(r, "wallet1", 1)
    \/ CreateWallet(r, "wallet2", 2)
    \/ Generate(r, "gen101", MaturityBlocks)
    \/ GetInfo(r)
    \/ GetNewAddress(r)
    \/ SendToAddress(r)
    \/ Generate(r, "gen1", ConfirmBlocks)
    \/ EchoBalance(r, "bal1", 1)
    \/ EchoBalance(r, "bal2", 2)
    \/ FinalStop(r)

\* The script is invoked; nothing in it looks for another running instance.
Launch(r) ==
    /\ pc[r] = "off"
    /\ \A q \in Runs : q < r => pc[q] # "off"
    /\ pc' = [pc EXCEPT ![r] = "setup"]
    /\ UNCHANGED <<envVars, polls, cause, failedAt, masked, executed, ghostVars, uiVars, probeSent, coinVars>>

\* An invocation after every earlier one has ended.
Invoke(r) ==
    /\ \A q \in Runs : pc[q] \in Idle
    /\ Launch(r)

\* An invocation while an earlier one is still running.
InvokeConcurrently(r) ==
    /\ \E q \in Runs : pc[q] \notin Idle
    /\ Launch(r)


\* ------------------------------------------------------------- front-end
scriptVars == <<envVars, runVars, ghostVars, probeSent, coinVars>>

\* log(msg): setLogs(prev => [msg, ...prev].slice(0, 50)). The messages are
\* written without the values the code interpolates into them.
Min(a, b) == IF a < b THEN a ELSE b

LogAppend(prev, msg) == SubSeq(prev \o <<msg>>, 1, Min(Len(prev) + 1, LogLimit))

Log(prev, msg) == SubSeq(<<msg>> \o prev, 1, Min(Len(prev) + 1, LogLimit))

\* useState(null)
Null == [null |-> TRUE]

\* data.address of a response body that has no address field
Undefined == "undefined"

\* !x for the values the address field takes
Falsy(x) == x \in {"", Undefined}

\* Bodies a GET /info request is answered with: a snapshot of both nodes, or
\* an error body.
InfoVersions == {1, 2}
InfoBodies ==
    {[node1 |-> v, node2 |-> v] : v \in InfoVersions} \cup {[detail |-> "error"]}

\* setInfo(data)
SetInfoMerged(prev, data) ==
    IF "node1" \in DOMAIN prev /\ "node1" \in DOMAIN data
    THEN [node1 |-> data.node1, node2 |-> prev.node2]
    ELSE data

SetInfo(prev, data) == data

\* What the amount field can hold: <input type="number"> gives the text of a
\* number, or the empty string.
AmountChars == {"-", "0", "1"}
Digits == {"0", "1"}

DigitValue(c) == IF c = "1" THEN 1 ELSE 0

\* The longest prefix of s made of digits.
RECURSIVE DigitPrefix(_)
DigitPrefix(s) ==
    IF s = <<>> \/ Head(s) \notin Digits THEN <<>>
    ELSE <<Head(s)>> \o DigitPrefix(Tail(s))

RECURSIVE DecimalValue(_)
DecimalValue(d) ==
    IF d = <<>> THEN 0
    ELSE 10 * DecimalValue(SubSeq(d, 1, Len(d) - 1)) + DigitValue(d[Len(d)])

\* parseFloat(s): an optional sign, then the longest run of digits; NaN when
\* there is no digit.
ParseFloat(s) ==
    LET neg == s # <<>> /\ Head(s) = "-"
        digits == DigitPrefix(IF neg THEN Tail(s) ELSE s)
    IN IF digits = <<>> THEN [nan |-> TRUE, val |-> 0]
       ELSE [nan |-> FALSE,
             val |-> IF neg THEN 0 - DecimalValue(digits) ELSE DecimalValue(digits)]

\* JSON.stringify of a number: NaN is written as null.
JsonNumber(x) == [isNull |-> x.nan, val |-> x.val]

IsNumberText(s) ==
    /\ s # <<>>
    /\ LET body == IF Head(s) = "-" THEN Tail(s) ELSE s
       IN body # <<>> /\ DigitPrefix(body) = body

AmountTexts ==
    {<<>>} \cup {s \in UNION {[1..k -> AmountChars] : k \in 1..MaxAmountLen} :
                    IsNumberText(s)}

AddressTexts == {"", "typed"}

\* Addresses a GET /wallet/address/n response carries in data.address.
AddressAnswers(n) == {IF n = 1 THEN "addr1" ELSE "addr2", Undefined}

CanClick == clicks < MaxClicks

\* fetchInfo, up to the await of the GET /info request
FetchInfo ==
    /\ nextId <= MaxFetches
    /\ infoReqs' = infoReqs \cup {nextId}
    /\ nextId' = nextId + 1

\* useEffect: fetchInfo() and setInterval(fetchInfo, 5000)
Mount ==
    /\ ~mounted
    /\ mounted' = TRUE
    /\ FetchInfo
    /\ UNCHANGED <<logs, startReqs, stopReqs, infoTimers, clicks, info, amount,
                   targetAddress, genReqs, addrReqs, sendReqs, sentBodies, lastOk,
                   shown, maxShown, scriptVars>>

\* The 5-second interval fires.
Tick ==
    /\ mounted
    /\ FetchInfo
    /\ UNCHANGED <<logs, startReqs, stopReqs, infoTimers, clicks, info, amount,
                   targetAddress, mounted, genReqs, addrReqs, sendReqs, sentBodies,
                   lastOk, shown, maxShown, scriptVars>>

\* The timer set by startNodes fires.
InfoTimerFires ==
    /\ infoTimers > 0
    /\ infoTimers' = infoTimers - 1
    /\ FetchInfo
    /\ UNCHANGED <<logs, startReqs, stopReqs, clicks, info, amount, targetAddress,
                   mounted, genReqs, addrReqs, sendReqs, sentBodies, lastOk, shown,
                   maxShown, scriptVars>>

\* fetchInfo, after the await: the response is parsed and displayed, or the
\* fetch or the parse failed and the catch block does nothing.
InfoSettled(id) ==
    /\ id \in infoReqs
    /\ infoReqs' = infoReqs \ {id}
    /\ \/ \E data \in InfoBodies :
             /\ info' = SetInfo(info, data)
             /\ lastOk' = data
             /\ shown' = id
             /\ maxShown' = IF id > maxShown THEN id ELSE maxShown
       \/ UNCHANGED <<info, lastOk, shown, maxShown>>
    /\ UNCHANGED <<logs, startReqs, stopReqs, infoTimers, clicks, amount,
                   targetAddress, mounted, nextId, genReqs, addrReqs, sendReqs,
                   sentBodies, scriptVars>>

\* startNodes, up to the await of the POST /start request
StartNodesClick ==
    /\ CanClick
    /\ clicks' = clicks + 1
    /\ logs' = Log(logs, "Starting nodes...")
    /\ startReqs' = startReqs + 1
    /\ UNCHANGED <<stopReqs, infoTimers, info, amount, targetAddress, mounted,
                   infoReqs, nextId, genReqs, addrReqs, sendReqs, sentBodies, lastOk,
                   shown, maxShown, scriptVars>>

\* startNodes, after the await: the request resolved or was rejected
StartNodesSettled ==
    /\ startReqs > 0
    /\ startReqs' = startReqs - 1
    /\ \E ok \in BOOLEAN :
          IF ok
          THEN /\ logs' = Log(logs, "Start command sent")
               /\ infoTimers' = infoTimers + 1
          ELSE /\ logs' = Log(logs, "Error")
               /\ UNCHANGED infoTimers
    /\ UNCHANGED <<stopReqs, clicks, info, amount, targetAddress, mounted, infoReqs,
                   nextId, genReqs, addrReqs, sendReqs, sentBodies, lastOk, shown,
                   maxShown, scriptVars>>

\* stopNodes, up to the await of the POST /stop request
StopNodesClick ==
    /\ CanClick
    /\ clicks' = clicks + 1
    /\ logs' = Log(logs, "Stopping nodes...")
    /\ stopReqs' = stopReqs + 1
    /\ UNCHANGED <<startReqs, infoTimers, info, amount, targetAddress, mounted,
                   infoReqs, nextId, genReqs, addrReqs, sendReqs, sentBodies, lastOk,
                   shown, maxShown, scriptVars>>

\* stopNodes, after the await
StopNodesSettled ==
    /\ stopReqs > 0
    /\ stopReqs' = stopReqs - 1
    /\ \E ok \in BOOLEAN :
          logs' = Log(logs, IF ok THEN "Stop command sent" ELSE "Error")
    /\ UNCHANGED <<startReqs, infoTimers, clicks, info, amount, targetAddress,
                   mounted, infoReqs, nextId, genReqs, addrReqs, sendReqs, sentBodies,
                   lastOk, shown, maxShown, scriptVars>>

\* generate, up to the await of the POST /generate request
GenerateClick ==
    /\ CanClick
    /\ clicks' = clicks + 1
    /\ logs' = Log(logs, "Generating blocks...")
    /\ genReqs' = genReqs + 1
    /\ UNCHANGED <<startReqs, stopReqs, infoTimers, info, amount, targetAddress,
                   mounted, infoReqs, nextId, addrReqs, sendReqs, sentBodies, lastOk,
                   shown, maxShown, scriptVars>>

\* generate, after the awaits: a parsed response is logged and fetchInfo is
\* called; a failure is logged.
GenerateSettled ==
    /\ genReqs > 0
    /\ genReqs' = genReqs - 1
    /\ \/ /\ logs' = Log(logs, "Generated")
          /\ FetchInfo
       \/ /\ logs' = Log(logs, "Error")
          /\ UNCHANGED <<infoReqs, nextId>>
    /\ UNCHANGED <<startReqs, stopReqs, infoTimers, clicks, info, amount,
                   targetAddress, mounted, addrReqs, sendReqs, sentBodies, lastOk,
                   shown, maxShown, scriptVars>>

\* getAddress(node), up to the await of the request
GetAddressClick(n) ==
    /\ CanClick
    /\ clicks' = clicks + 1
    /\ addrReqs' = [addrReqs EXCEPT ![n] = @ + 1]
    /\ UNCHANGED <<logs, startReqs, stopReqs, infoTimers, info, amount,
                   targetAddress, mounted, infoReqs, nextId, genReqs, sendReqs,
                   sentBodies, lastOk, shown, maxShown, scriptVars>>

\* getAddress(node), after the awaits
GetAddressSettled(n) ==
    /\ addrReqs[n] > 0
    /\ addrReqs' = [addrReqs EXCEPT ![n] = @ - 1]
    /\ \/ \E a \in AddressAnswers(n) :
             /\ logs' = Log(logs, "New Address")
             /\ targetAddress' = IF n = 2 THEN a ELSE targetAddress
       \/ /\ logs' = Log(logs, "Error")
          /\ UNCHANGED targetAddress
    /\ UNCHANGED <<startReqs, stopReqs, infoTimers, clicks, info, amount, mounted,
                   infoReqs, nextId, genReqs, sendReqs, sentBodies, lastOk, shown,
                   maxShown, scriptVars>>

\* onChange of the target address field
TypeAddress(a) ==
    /\ a # targetAddress
    /\ targetAddress' = a
    /\ UNCHANGED <<logs, startReqs, stopReqs, infoTimers, clicks, info, amount,
                   mounted, infoReqs, nextId, genReqs, addrReqs, sendReqs, sentBodies,
                   lastOk, shown, maxShown, scriptVars>>

\* onChange of the amount field
TypeAmount(t) ==
    /\ t # amount
    /\ amount' = t
    /\ UNCHANGED <<logs, startReqs, stopReqs, infoTimers, clicks, info,
                   targetAddress, mounted, infoReqs, nextId, genReqs, addrReqs,
                   sendReqs, sentBodies, lastOk, shown, maxShown, scriptVars>>

\* Body of the POST /send request:
\* JSON.stringify({ address: targetAddress, amount: parseFloat(amount) })
SendBody == [address |-> targetAddress, amount |-> JsonNumber(ParseFloat(amount))]

\* send, up to the await of the POST /send request
SendClick ==
    /\ CanClick
    /\ clicks' = clicks + 1
    /\ IF Falsy(targetAddress)
       THEN /\ logs' = Log(logs, "Error: No target address")
            /\ UNCHANGED <<sendReqs, sentBodies>>
       ELSE /\ logs' = Log(logs, "Sending...")
            /\ sendReqs' = sendReqs + 1
            /\ sentBodies' = sentBodies \cup {SendBody}
    /\ UNCHANGED <<startReqs, stopReqs, infoTimers, info, amount, targetAddress,
                   mounted, infoReqs, nextId, genReqs, addrReqs, lastOk, shown,
                   maxShown, scriptVars>>

\* send, after the awaits: a parsed response is logged (txid or error body)
\* and fetchInfo is called; a failure is logged.
SendSettled ==
    /\ sendReqs > 0
    /\ sendReqs' = sendReqs - 1
    /\ \/ /\ \E txid \in BOOLEAN :
                logs' = Log(logs, IF txid THEN "Sent!" ELSE "Error: body")
          /\ FetchInfo
       \/ /\ logs' = Log(logs, "Error")
          /\ UNCHANGED <<infoReqs, nextId>>
    /\ UNCHANGED <<startReqs, stopReqs, infoTimers, clicks, info, amount,
                   targetAddress, mounted, genReqs, addrReqs, sentBodies, lastOk,
                   shown, maxShown, scriptVars>>

\* ------------------------------------------------------- specifications
\* Chains a data directory may hold from earlier use.
InitHeights == {0, MaturityBlocks + ConfirmBlocks}

InitScript ==
    /\ proc \in [Nodes -> {"none", "starting", "up", "stopping"}]
    /\ wallet \in [Nodes -> BOOLEAN]
    /\ height \in InitHeights
    /\ answered \in [Nodes -> BOOLEAN]
    /\ \A n \in Nodes : proc[n] = "starting" => ~answered[n]
    /\ pc = [r \in Runs |-> "off"]
    /\ polls = [r \in Runs |-> 0]
    /\ cause = [r \in Runs |-> "none"]
    /\ failedAt = [r \in Runs |-> "none"]
    /\ masked = [r \in Runs |-> {}]
    /\ executed = [r \in Runs |-> {}]
    /\ probeSent = [r \in Runs |-> {}]
    /\ paid = 0
    /\ recv2 = 0
    /\ pendAmt = 0
    /\ pendFee = 0
    /\ blockFees = {}
    /\ gen2 = IF wallet[2] THEN 1 ELSE 0
    /\ addr2 = [r \in Runs |-> 0]
    /\ txFee = [r \in Runs |-> 0]
    /\ balBefore = [r \in Runs |-> [n \in Nodes |-> 0]]
    /\ balRead = [r \in Runs |-> [n \in Nodes |-> -1]]
    /\ issued = {}
    /\ unsafeClean = FALSE

\* The front-end's requests, timers and fields before any user event.
InitFrontIdle ==
    /\ startReqs = 0
    /\ stopReqs = 0
    /\ infoTimers = 0
    /\ clicks = 0
    /\ info = Null
    /\ amount = <<"1", "0">>
    /\ targetAddress = ""
    /\ infoReqs = {}
    /\ nextId = 1
    /\ genReqs = 0
    /\ addrReqs = [n \in Nodes |-> 0]
    /\ sendReqs = 0
    /\ sentBodies = {}
    /\ lastOk = Null
    /\ shown = 0
    /\ maxShown = 0

\* The front-end after construction.
InitFront ==
    /\ InitFrontIdle
    /\ logs = <<>>
    /\ mounted = FALSE

\* A log list of n distinct earlier messages.
OldLogs(n) == [i \in 1..n |-> ToString(i)]

\* The front-end after construction, or after earlier use that has filled
\* the log list up to, or one short of, its limit.
InitFrontUsed ==
    /\ InitFrontIdle
    /\ \/ logs = <<>> /\ mounted = FALSE
       \/ logs \in {OldLogs(LogLimit - 1), OldLogs(LogLimit)} /\ mounted = TRUE

Init == InitScript /\ InitFront

\* The script never invoked, on a new checkout.
InitScriptOff ==
    /\ InitScript
    /\ proc = [n \in Nodes |-> "none"]
    /\ wallet = [n \in Nodes |-> FALSE]
    /\ answered = [n \in Nodes |-> FALSE]
    /\ height = 0

\* The front-end alone.
InitUI == InitScriptOff /\ InitFront

\* The front-end alone, its log list possibly filled by earlier use.
InitLog == InitScriptOff /\ InitFrontUsed

\* The script, invoked one run after the other.
Next ==
    \/ \E r \in Runs : Invoke(r)
    \/ \E r \in Runs : Step(r)
    \/ \E n \in Nodes : RpcOpen(n)
    \/ \E n \in Nodes : NodeExit(n)

Spec == Init /\ [][Next]_vars

\* The script, invoked again while an earlier run has not ended.
NextTwo ==
    \/ \E r \in Runs : Invoke(r)
    \/ \E r \in Runs : InvokeConcurrently(r)
    \/ \E r \in Runs : Step(r)
    \/ \E n \in Nodes : RpcOpen(n)
    \/ \E n \in Nodes : NodeExit(n)

SpecTwo == Init /\ [][NextTwo]_vars

\* The front-end: user events, timers and the responses to its requests.
NextUI ==
    \/ Mount
    \/ Tick
    \/ InfoTimerFires
    \/ \E id \in 1..MaxFetches : InfoSettled(id)
    \/ StartNodesClick
    \/ StartNodesSettled
    \/ StopNodesClick
    \/ StopNodesSettled
    \/ GenerateClick
    \/ GenerateSettled
    \/ \E n \in Nodes : GetAddressClick(n)
    \/ \E n \in Nodes : GetAddressSettled(n)
    \/ \E a \in AddressTexts : TypeAddress(a)
    \/ \E t \in AmountTexts : TypeAmount(t)
    \/ SendClick
    \/ SendSettled

SpecUI == InitUI /\ [][NextUI]_vars

\* The part of the front-end that issues GET /info requests and displays
\* their responses: the polls and the commands that end with fetchInfo.
NextInfo ==
    \/ Mount
    \/ Tick
    \/ InfoTimerFires
    \/ \E id \in 1..MaxFetches : InfoSettled(id)
    \/ StartNodesClick
    \/ StartNodesSettled
    \/ GenerateClick
    \/ GenerateSettled
    \/ \E a \in AddressTexts : TypeAddress(a)
    \/ SendClick
    \/ SendSettled

SpecInfo == InitUI /\ [][NextInfo]_vars

\* The part of the front-end that writes to the log list: every handler
\* that calls log.
NextLog ==
    \/ StartNodesClick
    \/ StartNodesSettled
    \/ StopNodesClick
    \/ StopNodesSettled
    \/ GenerateClick
    \/ GenerateSettled
    \/ \E n \in Nodes : GetAddressClick(n)
    \/ \E n \in Nodes : GetAddressSettled(n)
    \/ SendClick
    \/ SendSettled

SpecLog == InitLog /\ [][NextLog]_vars

TypeOK ==
    /\ proc \in [Nodes -> {"none", "starting", "up", "stopping"}]
    /\ wallet \in [Nodes -> BOOLEAN]
    /\ height \in Nat
    /\ answered \in [Nodes -> BOOLEAN]
    /\ pc \in [Runs -> Labels]
    /\ polls \in [Runs -> 0..MaxPolls]
    /\ failedAt \in [Runs -> Labels \cup {"none"}]
    /\ \A r \in Runs : masked[r] \subseteq Labels
    /\ unsafeClean \in BOOLEAN
    /\ Len(logs) <= LogLimit
    /\ startReqs \in 0..MaxClicks
    /\ stopReqs \in 0..MaxClicks


\* ------------------------------------------------------------------ claims
\* C1: in every run of the script, from any prior state of the nodes,
\* make clean is invoked only when no node process exists.
C1_CleanOnlyWithoutProcess == unsafeClean = FALSE

\* A second run that found both nodes running (the first run aborted at the
\* mining step), stopped them, waited and has executed clean.
C1_Witness ==
    /\ failedAt[1] = "gen101"
    /\ cause[1] = "error"
    /\ pc[2] = "start"

\* C2: no createwallet call is put on the wire before both nodes have
\* answered a getnetworkinfo probe since their start (so in particular not
\* before the called node's own first successful probe).
C2_WalletSetupAfterBothReady ==
    \A c \in issued : c.method = "createwallet" => c.probed = Nodes

C2_Witness == \E c \in issued : c.method = "createwallet" /\ c.node = 2

\* C3: a readiness wait gives up after a bounded number of failed probes
\* (fewer than MaxPolls), and wallet creation and mining are reached only
\* after both nodes answered a probe.
C3_NotReadyFailsAfterBoundedProbes ==
    /\ \A r \in Runs : pc[r] \in {"wait1", "wait2"} => polls[r] < MaxPolls
    /\ \A c \in issued :
          c.method \in {"createwallet", "generate"} => c.probed = Nodes

\* C4: the wait for process exit gives up after a bounded number of polls
\* (fewer than MaxPolls) instead of waiting on.
C4_StopWaitIsBounded ==
    \A r \in Runs : pc[r] = "waitexit" => polls[r] < MaxPolls

\* The steps whose failure must end the run.
AbortingSteps == {"clean", "start", "wallet1", "wallet2", "gen101", "getinfo",
                  "newaddr", "send", "gen1", "bal1", "bal2", "stop1"}

\* C5: a failed step is never followed by a later step, and exit status 0
\* is reached only when every step succeeded.
C5_FailureAbortsTheRun ==
    \A r \in Runs :
        /\ masked[r] \cap AbortingSteps = {}
        /\ (pc[r] \in Ended /\ ExitStatus(r) = 0) => masked[r] \cap AbortingSteps = {}

\* C6: a createwallet call that reports that the wallet already exists does
\* not abort the run.
C6_WalletExistsIsTolerated ==
    \A r \in Runs :
        ~(pc[r] = "failed" /\ failedAt[r] \in {"wallet1", "wallet2"} /\ cause[r] = "exists")

\* The state the bootstrap part of the script leaves behind.
ReadyState ==
    /\ \A n \in Nodes : proc[n] = "up" /\ wallet[n]
    /\ height = MaturityBlocks

\* C7: whatever state an earlier run left behind, a run that completes the
\* bootstrap part (lines 36-68) is in the same Ready state: both node
\* processes running, both wallets present, 101 blocks on a cleaned chain.
C7_BootstrapIdempotent ==
    \A r \in Runs : pc[r] \in {"getinfo", "newaddr"} => ReadyState

\* The second run in a row is Ready, after an initial stop request that
\* failed and was ignored.
C7_Witness ==
    /\ pc[1] = "done"
    /\ pc[2] = "newaddr"
    /\ "stop0" \in masked[2]

\* C8: every RPC call is issued against a node that has answered a probe
\* since its last start.
C8_NoRpcBeforeProbe == \A c \in issued : c.node \in c.probed

\* C9: at most one run of the script is in flight at any time.
C9_OneStartSequenceInFlight ==
    Cardinality({r \in Runs : pc[r] \notin Idle}) <= 1

\* C10: when the script has exited with status 0, after its final stop
\* step, no node process is running.
C10_StopReturnsAfterExit ==
    \A r \in Runs : (pc[r] = "done" /\ ExitStatus(r) = 0) => ~ProcessExists


\* The steps of the bootstrap sequence, in the order of section 4.4.
BootstrapOrder == <<"stop0", "waitexit", "clean", "start", "wait1", "wait2",
                    "wallet1", "wallet2", "gen101", "getinfo">>

\* Steps run r has begun: those it ran to their end, the one that aborted
\* it, and the wait loop it is polling in.
Begun(r) ==
    executed[r]
      \cup (IF failedAt[r] # "none" THEN {failedAt[r]} ELSE {})
      \cup (IF polls[r] > 0 THEN {pc[r]} ELSE {})

\* Steps run r ran with success.
Succeeded(r) == executed[r] \ masked[r]

\* C11: within one run, a step of the bootstrap sequence has begun only if
\* the step before it succeeded (the stop request only needs to have been
\* made: its success is what the wait for process exit confirms); mining has
\* begun only after both wallets were created, start only after clean.
C11_StrictBootstrapOrder ==
    \A r \in Runs :
        /\ \A i \in 2..Len(BootstrapOrder) :
              BootstrapOrder[i] \in Begun(r) =>
                  IF i = 2 THEN BootstrapOrder[1] \in executed[r]
                  ELSE BootstrapOrder[i - 1] \in Succeeded(r)
        /\ "gen101" \in Begun(r) => {"wallet1", "wallet2"} \subseteq Succeeded(r)
        /\ "start" \in Begun(r) => "clean" \in Succeeded(r)

\* A run that went through the whole bootstrap sequence.
C11_Witness == \E r \in Runs : pc[r] = "newaddr" /\ "getinfo" \in Succeeded(r)

\* C12: a run that is still waiting on Node 1 after MaxPolls failed probes
\* has sent a readiness probe to Node 2.
C12_ReadinessWaitsConcurrent ==
    \A r \in Runs : (pc[r] = "wait1" /\ polls[r] = MaxPolls) => 2 \in probeSent[r]


\* C13: while the chain has fewer than 101 blocks Node 1 can spend nothing;
\* once a run has mined its 101 blocks Node 1's balance is positive; and the
\* transfer is issued only after the 101-block generation step succeeded.
C13_CoinbaseMaturity ==
    /\ height < MaturityBlocks => Balance(1) = 0
    /\ \A r \in Runs :
          /\ pc[r] \in {"getinfo", "newaddr", "send"} => Balance(1) > 0
          /\ "send" \in Begun(r) => "gen101" \in Succeeded(r)

\* The transfer of a run has been issued and accepted.
C13_Witness == \E r \in Runs : pc[r] = "gen1" /\ "send" \in Succeeded(r)

\* Run r has printed both balances.
BothRead(r) == {"bal1", "bal2"} \subseteq Succeeded(r)

\* C14, as claimed: after the transfer of 10 and one more block, the balance
\* read for Node 2 is 10 higher and the balance read for Node 1 is lower by
\* 10 plus the fee than just before the transfer.
C14_TransferRoundTrip ==
    \A r \in Runs :
        BothRead(r) =>
            /\ balRead[r][2] = balBefore[r][2] + SendAmount
            /\ balRead[r][1] = balBefore[r][1] - SendAmount - txFee[r]

\* C14, amended: the additional block also matures one more block reward of
\* Node 1, so Node 1's balance changes by the reward less 10 and the fee.
C14_TransferRoundTripWithReward ==
    \A r \in Runs :
        BothRead(r) =>
            /\ balRead[r][2] = balBefore[r][2] + SendAmount
            /\ balRead[r][1] = balBefore[r][1] - SendAmount - txFee[r] + Reward

C14_Witness == \E r \in Runs : BothRead(r) /\ txFee[r] > 0

\* C15: every POST /send request the front-end issues carries a non-empty
\* target address and an amount that is a positive number.
C15_SendBodyValid ==
    \A b \in sentBodies :
        /\ ~Falsy(b.address)
        /\ ~b.amount.isNull
        /\ b.amount.val > 0

\* C16: the displayed info is null or exactly the complete body of the last
\* /info response that was received and parsed; a fetch that fails leaves it
\* as it was, and it is never a merge of two responses.
C16_InfoIsOneResponse ==
    /\ info = lastOk
    /\ info = Null \/ info \in InfoBodies

\* A snapshot is displayed, a later request has been issued and has failed,
\* and nothing is in flight.
C16_Witness ==
    /\ shown > 0
    /\ shown = maxShown
    /\ nextId > shown + 1
    /\ infoReqs = {}
    /\ info \in InfoBodies
    /\ "node1" \in DOMAIN info

\* C17: a response to an older /info request never overwrites the displayed
\* response to a newer one.
C17_LateResponsesDiscarded == shown = maxShown

\* C18: the log list holds at most 50 entries, newest first: each log(msg)
\* puts the message in front, keeps the order of the earlier entries and drops
\* only the entries beyond the 50th.
C18_LogNewestFirstBounded ==
    /\ [](Len(logs) <= LogLimit)
    /\ [][logs' # logs =>
             /\ Len(logs') = Min(Len(logs) + 1, LogLimit)
             /\ \A i \in 2..Len(logs') : logs'[i] = logs[i - 1]]_vars

\* Two messages were logged on a full list: the two oldest entries are gone
\* and the others have moved back by two.
C18_Witness ==
    /\ Len(logs) = LogLimit
    /\ logs[3] = ToString(1)
    /\ logs[LogLimit] = ToString(LogLimit - 2)
    /\ logs[1] \notin {ToString(i) : i \in 1..LogLimit}

====
